---- MODULE Spec2Model ----
(***************************************************************************)
(* A model of theorem_prover/theorem_classes.py: the forward-chaining      *)
(* search of TheoremProver.find_proof over Theorem records, with the       *)
(* helper functions flatten, find, remove_duplicate and                    *)
(* merge_theorem_lists computed as the Python code computes them.          *)
(*                                                                         *)
(* Facts are Python ints.  A Python list that is stored where a fact could *)
(* also be stored (the axiom field of a Theorem) is the record             *)
(* [list |-> items], and a fact seen as a Python object is the record      *)
(* [fact |-> n], so that Python's == between a list and an int is FALSE    *)
(* here as it is there.  A rule is represented by its name; Func and       *)
(* Raises give the behaviour of its func field.                            *)
(***************************************************************************)
EXTENDS Integers, Sequences, FiniteSets, TLC

\* ------------------------------------------------------------------ bounds
MaxAxioms == 2
MaxRules == 2
MaxAxiomFact == 1
MaxTarget == 3
MaxDepthArg == 3

\* Bounds of the inputs of two concurrent calls.
MaxConcAxioms == 1
MaxConcRules == 2
MaxConcTarget == 2
MaxConcDepthArg == 1

\* Bounds of the inputs of remove_duplicate taken alone.
MaxDedupLen == 3
MaxDedupClasses == 2

\* apply_rule taken alone, on objects: the theorems made from one axiom.
MaxHeapTheorems == 4

\* ------------------------------------------------- caller-supplied inputs
AxiomFacts == 0..MaxAxiomFact
Targets == (-1)..MaxTarget
DepthArgs == (-1)..MaxDepthArg

ConcTargets == (-1)..MaxConcTarget
ConcDepthArgs == 0..MaxConcDepthArg

\* The items of the sequences handed to remove_duplicate taken alone, and the
\* equivalences on them, each given by the class it puts every item in.
DedupItems == {"a", "b", "c"}
DedupClassMaps == [DedupItems -> 1..MaxDedupClasses]

\* Rules whose func returns a fact for every fact.
TotalRuleNames == {"increment", "identity", "wrap"}

\* "predecessor" is a partial function: it raises on the fact 0.
PartialRuleNames == {"predecessor"}

RuleNames == TotalRuleNames \cup PartialRuleNames

\* rule.func(fact, theorem_prover) raises an exception.
Raises(rule, fact) == rule = "predecessor" /\ fact = 0

\* The value rule.func(fact, theorem_prover) returns when it does not raise.
Func(rule, fact) ==
  CASE rule = "increment" -> fact + 1
    [] rule = "identity" -> fact
    [] rule = "wrap" -> (fact + 1) % 3
    [] rule = "predecessor" -> fact - 1

\* All sequences over S of length at most n.
SeqsUpTo(S, n) == UNION {[1..k -> S] : k \in 0..n}

\* ------------------------------------------------------------ Python values
PyList(items) == [list |-> items]

PyFact(n) == [fact |-> n]

\* ----------------------------------------------------------------- helpers
\* The element of a one-element set.  {e(x) : x \in {v}} binds x to the value
\* of v, as a Python assignment x = v does, so that v is computed once.
The(S) == CHOOSE x \in S : TRUE

\* flatten(seq): the concatenation of the sublists, in order.
flatten(seq) ==
  LET fl[i \in 0..Len(seq)] == IF i = 0 THEN <<>> ELSE fl[i - 1] \o seq[i]
  IN fl[Len(seq)]

\* The items of a list, as a set.
Items(seq) == {seq[i] : i \in 1..Len(seq)}

\* A Python function f of one or two arguments is the TLA+ function that maps
\* an item, or a pair of items, to what f returns.

\* find(f, seq): the first item with f(item); None is modelled by the caller,
\* who only calls find when such an item exists.
find(f, seq) ==
  seq[CHOOSE i \in 1..Len(seq) : f[seq[i]] /\ \A j \in 1..(i - 1) : ~f[seq[j]]]

remove_duplicate_adjacent(f, seq) ==
  LET rd[i \in 0..Len(seq)] ==
        IF i = 0 THEN <<>>
        ELSE The({IF return_list # <<>> /\ f[<<seq[i], return_list[Len(return_list)]>>]
                  THEN return_list
                  ELSE Append(return_list, seq[i]) :
                  return_list \in {rd[i - 1]}})
  IN rd[Len(seq)]

\* remove_duplicate(f, seq): the for/else loop over seq that appends an item
\* unless f(item, r_item) holds for some r_item already in return_list.
remove_duplicate(f, seq) ==
  LET rd[i \in 0..Len(seq)] ==
        IF i = 0 THEN <<>>
        ELSE The({IF \E j \in 1..Len(return_list) : f[<<seq[i], return_list[j]>>]
                  THEN return_list
                  ELSE Append(return_list, seq[i]) :
                  return_list \in {rd[i - 1]}})
  IN rd[Len(seq)]

\* lambda t_1, t_2: t_1.result == t_2.result, on the theorems of a list.
same_result(theorems) ==
  [p \in Items(theorems) \X Items(theorems) |-> p[1].result = p[2].result]

merge_theorem_lists_keeping_all(theorem_0, theorem_1) == theorem_0 \o theorem_1

merge_theorem_lists_new_first(theorem_0, theorem_1) ==
  The({remove_duplicate(same_result(seq), seq) : seq \in {theorem_1 \o theorem_0}})

\* merge_theorem_lists: remove_duplicate(lambda ..., theorem_0 + theorem_1)
merge_theorem_lists(theorem_0, theorem_1) ==
  The({remove_duplicate(same_result(seq), seq) : seq \in {theorem_0 \o theorem_1}})

\* ---------------------------------------------------------------- Theorem
Theorem(axiom, rules, result) ==
  [axiom |-> axiom, rules |-> rules, result |-> result]

Axiom_unwrapped(axiom) == Theorem(PyFact(axiom), <<>>, axiom)

\* Axiom.__init__: super().__init__([axiom], [], axiom)
Axiom(axiom) == Theorem(PyList(<<axiom>>), <<>>, axiom)

apply_rule_keeping_rules(self, rule) ==
  <<Theorem(self.axiom, self.rules, Func(rule, self.result))>>

\* Theorem.apply_rule, for a rule that does not raise on self.result.
apply_rule(self, rule) ==
  <<Theorem(self.axiom, Append(self.rules, rule), Func(rule, self.result))>>

apply_rules_chained(self, rules) ==
  LET tl[i \in 0..Len(rules)] ==
        IF i = 0 THEN <<>>
        ELSE IF i = 1 THEN apply_rule(self, rules[1])
        ELSE The({prev \o apply_rule(prev[i - 1], rules[i]) : prev \in {tl[i - 1]}})
  IN tl[Len(rules)]

apply_rules_last_only(self, rules) ==
  IF rules = <<>> THEN <<>> ELSE apply_rule(self, rules[Len(rules)])

apply_rules_first_only(self, rules) ==
  IF rules = <<>> THEN <<>> ELSE apply_rule(self, rules[1])

\* Theorem.apply_rules: theorem_list += self.apply_rule(...) for each rule.
apply_rules(self, rules) ==
  LET tl[i \in 0..Len(rules)] ==
        IF i = 0 THEN <<>> ELSE tl[i - 1] \o apply_rule(self, rules[i])
  IN tl[Len(rules)]

\* [theorem.result for theorem in theorems] as a set.
results_set(theorems) == {t.result : t \in Items(theorems)}

\* ------------------------------------------------- TheoremProver.find_proof
\* The value of the local variables and of the call after a loop iteration:
\* state is SEARCHING while the loop runs and names the way the call ended
\* otherwise; ret is what the call hands to its caller; invoked counts the
\* calls of rule.func made by the iteration.
NoReturn == [kind |-> "running"]

ReturnNone == [kind |-> "None"]

ReturnTheorem(t) == [kind |-> "Theorem", thm |-> t]

Raise == [kind |-> "raise"]

Locals(state, ret, found_theorems, depth, invoked) ==
  [state |-> state, ret |-> ret, found_theorems |-> found_theorems,
   depth |-> depth, invoked |-> invoked]

\* target in [theorem.result for theorem in found_theorems]
target_found(target, found_theorems) == target \in results_set(found_theorems)

\* lambda t: t.result == target, on the theorems of a list.
is_target(target, theorems) == [t \in Items(theorems) |-> t.result = target]

\* return find(lambda t: t.result == target, found_theorems)
return_found(target, found_theorems, depth) ==
  Locals("FOUND", ReturnTheorem(find(is_target(target, found_theorems), found_theorems)),
         found_theorems, depth, 0)

depth_exceeded_at_bound(depth, max_depth) == depth >= max_depth

\* elif depth > max_depth
depth_exceeded(depth, max_depth) == depth > max_depth

keep_looping(found_theorems, depth) ==
  Locals("SEARCHING", NoReturn, found_theorems, depth, 0)

\* return None (depth bound)
return_depth_exceeded(found_theorems, depth) ==
  Locals("DEPTH_EXCEEDED", ReturnNone, found_theorems, depth, 0)

raising_calls_swallowed(found_theorems, rules) == {}

\* The positions, in call order, of the calls of rule.func that raise: the
\* expansion calls every rule, in order, on every frontier theorem, in order.
raising_calls(found_theorems, rules) ==
  {(i - 1) * Len(rules) + j : <<i, j>> \in
     {p \in (1..Len(found_theorems)) \X (1..Len(rules)) :
        Raises(rules[p[2]], found_theorems[p[1]].result)}}

Min(S) == CHOOSE x \in S : \A y \in S : x <= y

\* An exception of rule.func leaves apply_rule, apply_rules and find_proof:
\* the calls before the raising one were made, none after it is.
propagate_raise(found_theorems, rules, depth) ==
  Locals("RAISED", Raise, found_theorems, depth,
         Min(raising_calls(found_theorems, rules)))

\* flatten([theorem.apply_rules(self, self.rules) for theorem in found_theorems])
expand(found_theorems, rules) ==
  flatten([i \in 1..Len(found_theorems) |-> apply_rules(found_theorems[i], rules)])

fixpoint_never(found_results_set, theorems_results_set) == FALSE

fixpoint_by_size(found_results_set, theorems_results_set) ==
  Cardinality(theorems_results_set) <= Cardinality(found_results_set)

\* found_results_set | theorems_results_set == found_results_set
fixpoint(found_results_set, theorems_results_set) ==
  (found_results_set \cup theorems_results_set) = found_results_set

\* return None (fixpoint)
return_exhausted(found_theorems, depth, invoked) ==
  Locals("EXHAUSTED", ReturnNone, found_theorems, depth, invoked)

\* found_theorems = merge_theorem_lists(found_theorems, theorems); depth += 1
next_round(found_theorems, theorems, depth) ==
  Locals("SEARCHING", NoReturn, merge_theorem_lists(found_theorems, theorems),
         depth + 1, Len(theorems))

find_proof_round_expanding_first(rules, target, max_depth, found_theorems, depth) ==
  IF raising_calls(found_theorems, rules) # {}
  THEN propagate_raise(found_theorems, rules, depth)
  ELSE The({IF fixpoint(results_set(found_theorems), results_set(theorems))
            THEN return_exhausted(found_theorems, depth, Len(theorems))
            ELSE IF target_found(target, found_theorems)
            THEN return_found(target, found_theorems, depth)
            ELSE IF depth_exceeded(depth, max_depth)
            THEN return_depth_exceeded(found_theorems, depth)
            ELSE next_round(found_theorems, theorems, depth) :
            theorems \in {expand(found_theorems, rules)}})

find_proof_round_depth_first(rules, target, max_depth, found_theorems, depth) ==
  IF depth_exceeded(depth, max_depth)
  THEN return_depth_exceeded(found_theorems, depth)
  ELSE IF target_found(target, found_theorems)
  THEN return_found(target, found_theorems, depth)
  ELSE IF raising_calls(found_theorems, rules) # {}
  THEN propagate_raise(found_theorems, rules, depth)
  ELSE The({IF fixpoint(results_set(found_theorems), results_set(theorems))
            THEN return_exhausted(found_theorems, depth, Len(theorems))
            ELSE next_round(found_theorems, theorems, depth) :
            theorems \in {expand(found_theorems, rules)}})

\* One iteration of the while True loop.
find_proof_round(rules, target, max_depth, found_theorems, depth) ==
  IF target_found(target, found_theorems)
  THEN return_found(target, found_theorems, depth)
  ELSE IF depth_exceeded(depth, max_depth)
  THEN return_depth_exceeded(found_theorems, depth)
  ELSE IF raising_calls(found_theorems, rules) # {}
  THEN propagate_raise(found_theorems, rules, depth)
  ELSE The({IF fixpoint(results_set(found_theorems), results_set(theorems))
            THEN return_exhausted(found_theorems, depth, Len(theorems))
            ELSE next_round(found_theorems, theorems, depth) :
            theorems \in {expand(found_theorems, rules)}})

\* The whole call: found_theorems = copy.deepcopy(self.axioms); depth = 0;
\* then the loop until it returns or raises.
RECURSIVE find_proof_loop(_, _, _, _, _)
find_proof_loop(rules, target, max_depth, found_theorems, depth) ==
  The({IF l.state = "SEARCHING"
       THEN find_proof_loop(rules, target, max_depth, l.found_theorems, l.depth)
       ELSE l :
       l \in {find_proof_round(rules, target, max_depth, found_theorems, depth)}})

find_proof(self_axioms, self_rules, target, max_depth) ==
  find_proof_loop(self_rules, target, max_depth, self_axioms, 0)

\* -------------------------------------------------------------------- state
VARIABLES
  facts,            \* the facts the caller built the axioms from
  rules_arg,        \* the rule list the caller passed to TheoremProver
  axioms,           \* self.axioms
  rules,            \* self.rules
  state,            \* IDLE, SEARCHING, or the way the current call ended
  target,           \* argument of the current call
  max_depth,        \* argument of the current call
  found_theorems,   \* local variable of find_proof
  depth,            \* local variable of find_proof
  ret,              \* what the current call returned
  invoked,          \* calls of rule.func made by the current call
  called,           \* find_proof was called on the prover before this call
  state2,           \* a second thread's call of find_proof on the same prover:
  target2,          \*   its arguments,
  max_depth2,
  found_theorems2,  \*   its local variables,
  depth2,
  ret2,             \*   what it returned,
  invoked2,         \*   the calls of rule.func it made
  dd_seq,           \* remove_duplicate taken alone: the sequence,
  dd_cls,           \*   the class of every item under the equivalence f,
  dd_out,           \*   and what the call returned (<<return value>>)
  heap_lists,       \* apply_rule taken alone: the list objects, by identity,
  heap_theorems     \*   and the Theorem objects made, whose axiom and rules
                    \*   fields are references to list objects

thread2 == <<state2, target2, max_depth2, found_theorems2, depth2, ret2, invoked2>>

dedup == <<dd_seq, dd_cls, dd_out>>

heap == <<heap_lists, heap_theorems>>

others == <<thread2, dedup, heap>>

vars == <<facts, rules_arg, axioms, rules, state, target, max_depth,
          found_theorems, depth, ret, invoked, called, thread2, dedup, heap>>

prover == <<facts, rules_arg, axioms, rules>>

Terminal == {"FOUND", "EXHAUSTED", "DEPTH_EXCEEDED", "RAISED"}

\* TheoremProver([Axiom(f) for f in facts], rules): self.axioms, self.rules.
Construct(fs, rs) ==
  /\ facts = fs
  /\ rules_arg = rs
  /\ axioms = [i \in 1..Len(fs) |-> Axiom(fs[i])]
  /\ rules = rs
  /\ state = "IDLE"
  /\ target = 0
  /\ max_depth = 0
  /\ found_theorems = <<>>
  /\ depth = 0
  /\ ret = NoReturn
  /\ invoked = 0
  /\ called = FALSE
  /\ state2 = "IDLE"
  /\ target2 = 0
  /\ max_depth2 = 0
  /\ found_theorems2 = <<>>
  /\ depth2 = 0
  /\ ret2 = NoReturn
  /\ invoked2 = 0

\* No call of remove_duplicate taken alone.
NoDedup ==
  /\ dd_seq = <<>>
  /\ dd_cls = [x \in DedupItems |-> 1]
  /\ dd_out = <<>>

\* No Theorem object is followed by identity.
NoHeap ==
  /\ heap_lists = <<>>
  /\ heap_theorems = <<>>

Init ==
  \E fs \in SeqsUpTo(AxiomFacts, MaxAxioms), rs \in SeqsUpTo(TotalRuleNames, MaxRules) :
    Construct(fs, rs) /\ NoDedup /\ NoHeap

InitPartial ==
  \E fs \in SeqsUpTo(AxiomFacts, MaxAxioms), rs \in SeqsUpTo(RuleNames, MaxRules) :
    Construct(fs, rs) /\ NoDedup /\ NoHeap

\* find_proof(t, d) is called: deep copy of self.axioms, depth = 0.
CallWith(t, d) ==
  /\ state = "IDLE"
  /\ target' = t
  /\ max_depth' = d
  /\ found_theorems' = axioms
  /\ depth' = 0
  /\ state' = "SEARCHING"
  /\ ret' = NoReturn
  /\ invoked' = 0
  /\ UNCHANGED <<prover, called, others>>

Call == \E t \in Targets, d \in DepthArgs : CallWith(t, d)

Round_storing_frontier ==
  /\ state = "SEARCHING"
  /\ \E l \in {find_proof_round(rules, target, max_depth, found_theorems, depth)} :
        /\ state' = l.state
        /\ ret' = l.ret
        /\ found_theorems' = l.found_theorems
        /\ depth' = l.depth
        /\ invoked' = invoked + l.invoked
        /\ axioms' = l.found_theorems
  /\ UNCHANGED <<facts, rules_arg, rules, target, max_depth, called, others>>

\* One iteration of the loop of the running call.
Round ==
  /\ state = "SEARCHING"
  /\ \E l \in {find_proof_round(rules, target, max_depth, found_theorems, depth)} :
        /\ state' = l.state
        /\ ret' = l.ret
        /\ found_theorems' = l.found_theorems
        /\ depth' = l.depth
        /\ invoked' = invoked + l.invoked
  /\ UNCHANGED <<prover, target, max_depth, called, others>>

\* The call has returned or raised: its arguments and locals are gone and the
\* caller may call the prover again.
Return ==
  /\ state \in Terminal
  /\ state' = "IDLE"
  /\ found_theorems' = <<>>
  /\ depth' = 0
  /\ ret' = NoReturn
  /\ invoked' = 0
  /\ target' = 0
  /\ max_depth' = 0
  /\ called' = TRUE
  /\ UNCHANGED <<prover, others>>

Next == Call \/ Round \/ Return

Spec == Init /\ [][Next]_vars

\* The call is synchronous: a running loop takes its next iteration.
FairSpec == Spec /\ WF_vars(Round)

\* The same program with rule lists that may hold a partial rule.
SpecPartial == InitPartial /\ [][Next]_vars

\* ---------------------------------------------------- two concurrent calls
\* Two threads call find_proof on the same prover; a thread switch may come
\* between any two loop iterations.  self.axioms and self.rules are the only
\* objects both calls reach; arguments and locals belong to each call.
thread1 == <<state, target, max_depth, found_theorems, depth, ret, invoked>>

InitConc ==
  \E fs \in SeqsUpTo(AxiomFacts, MaxConcAxioms),
     rs \in SeqsUpTo(TotalRuleNames, MaxConcRules) :
    Construct(fs, rs) /\ NoDedup /\ NoHeap

CallConc == \E t \in ConcTargets, d \in ConcDepthArgs : CallWith(t, d)

\* The second thread calls find_proof(t, d).
Call2 ==
  \E t \in ConcTargets, d \in ConcDepthArgs :
    /\ state2 = "IDLE"
    /\ target2' = t
    /\ max_depth2' = d
    /\ found_theorems2' = axioms
    /\ depth2' = 0
    /\ state2' = "SEARCHING"
    /\ ret2' = NoReturn
    /\ invoked2' = 0
    /\ UNCHANGED <<prover, called, thread1, dedup, heap>>

Round2_sharing_frontier ==
  /\ state2 = "SEARCHING"
  /\ \E l \in {find_proof_round(rules, target2, max_depth2, found_theorems2, depth2)} :
        /\ state2' = l.state
        /\ ret2' = l.ret
        /\ found_theorems2' = l.found_theorems
        /\ depth2' = l.depth
        /\ invoked2' = invoked2 + l.invoked
        /\ found_theorems' = l.found_theorems
  /\ UNCHANGED <<prover, called, state, target, max_depth, depth, ret, invoked,
                 target2, max_depth2, dedup, heap>>

\* One iteration of the loop of the second thread's call.
Round2 ==
  /\ state2 = "SEARCHING"
  /\ \E l \in {find_proof_round(rules, target2, max_depth2, found_theorems2, depth2)} :
        /\ state2' = l.state
        /\ ret2' = l.ret
        /\ found_theorems2' = l.found_theorems
        /\ depth2' = l.depth
        /\ invoked2' = invoked2 + l.invoked
  /\ UNCHANGED <<prover, called, thread1, target2, max_depth2, dedup, heap>>

NextConc == CallConc \/ Round \/ Call2 \/ Round2

SpecConc == InitConc /\ [][NextConc]_vars

\* ------------------------------------------------- remove_duplicate alone

\* An equivalence f(item_1, item_2), given by the class of every item.
same_class(cls) ==
  [p \in DedupItems \X DedupItems |-> cls[p[1]] = cls[p[2]]]

InitDedup ==
  /\ Construct(<<>>, <<>>)
  /\ NoHeap
  /\ dd_seq \in SeqsUpTo(DedupItems, MaxDedupLen)
  /\ dd_cls \in DedupClassMaps
  /\ dd_out = <<>>

\* remove_duplicate(f, seq)
RemoveDuplicate ==
  /\ dd_out = <<>>
  /\ dd_out' = <<remove_duplicate(same_class(dd_cls), dd_seq)>>
  /\ UNCHANGED <<prover, thread1, called, thread2, dd_seq, dd_cls, heap>>

\* remove_duplicate(f, remove_duplicate(f, seq)): the call on its own output.
RemoveDuplicateAgain ==
  /\ Len(dd_out) = 1
  /\ dd_out' = Append(dd_out, remove_duplicate(same_class(dd_cls), dd_out[1]))
  /\ UNCHANGED <<prover, thread1, called, thread2, dd_seq, dd_cls, heap>>

NextDedup == RemoveDuplicate \/ RemoveDuplicateAgain

SpecDedup == InitDedup /\ [][NextDedup]_vars

\* ------------------------------------------------- apply_rule on objects

\* Theorem.__init__ stores the references it is given.
TheoremObject(axiom_ref, rules_ref, result) ==
  [axiom |-> axiom_ref, rules |-> rules_ref, result |-> result]

\* Axiom(axiom): super().__init__([axiom], [], axiom) makes two new lists.
AxiomOnHeap(axiom) ==
  [lists |-> << <<axiom>>, <<>> >>,
   returned |-> <<TheoremObject(1, 2, axiom)>>]

\* The theorem an object stands for: its lists read through the references.
Value(lists, self) ==
  Theorem(PyList(lists[self.axiom]), lists[self.rules], self.result)

apply_rule_appending_in_place(lists, self, rule) ==
  [lists |-> [lists EXCEPT ![self.rules] = Append(@, rule)],
   returned |-> <<TheoremObject(self.axiom, self.rules, Func(rule, self.result))>>]

\* Theorem.apply_rule on objects: self.rules + [rule] is a new list object,
\* self.axiom is passed on as it is.
apply_rule_on_heap(lists, self, rule) ==
  [lists |-> Append(lists, Append(lists[self.rules], rule)),
   returned |-> <<TheoremObject(self.axiom, Len(lists) + 1, Func(rule, self.result))>>]

InitHeap ==
  /\ Construct(<<>>, <<>>)
  /\ NoDedup
  /\ \E f \in AxiomFacts :
       /\ heap_lists = AxiomOnHeap(f).lists
       /\ heap_theorems = AxiomOnHeap(f).returned

\* T.apply_rule(ctx, R) for a theorem T made so far and a rule R.
ApplyRule ==
  /\ Len(heap_theorems) < MaxHeapTheorems
  /\ \E i \in 1..Len(heap_theorems), rule \in TotalRuleNames :
       \E r \in {apply_rule_on_heap(heap_lists, heap_theorems[i], rule)} :
         /\ heap_lists' = r.lists
         /\ heap_theorems' = heap_theorems \o r.returned
  /\ UNCHANGED <<prover, thread1, called, thread2, dedup>>

NextHeap == ApplyRule

SpecHeap == InitHeap /\ [][NextHeap]_vars

\* ================================================================== claims
\* The axioms the prover was constructed with.
ConstructedAxioms == [i \in 1..Len(facts) |-> Axiom(facts[i])]

RuleSet(rs) == {rs[j] : j \in 1..Len(rs)}

\* The facts derivable from the facts fs by at most k applications of rules
\* of rs (none for a negative k), computed on sets of facts.
RECURSIVE Derivable(_, _, _)
Derivable(fs, rs, k) ==
  IF k < 0 THEN {}
  ELSE IF k = 0 THEN {fs[i] : i \in 1..Len(fs)}
  ELSE LET D == Derivable(fs, rs, k - 1)
       IN D \cup {Func(p[1], p[2]) :
                    p \in {q \in RuleSet(rs) \X D : ~Raises(q[1], q[2])}}

\* The fact obtained from fact by applying the rules of rs in order.
RECURSIVE Replay(_, _)
Replay(fact, rs) ==
  IF rs = <<>> THEN fact ELSE Replay(Func(Head(rs), fact), Tail(rs))

Derives(t) == Replay(t.axiom.list[1], t.rules) = t.result

IncrementFromZero == facts = <<0>> /\ rules_arg = <<"increment">>

IdentityFromZero == facts = <<0>> /\ rules_arg = <<"identity">>

C2_DerivationInvariant ==
  /\ \A i \in 1..Len(found_theorems) : Derives(found_theorems[i])
  /\ ret.kind = "Theorem" => Derives(ret.thm)

C2_Witness ==
  /\ state = "FOUND"
  /\ Len(ret.thm.rules) >= 3
  /\ \E i, j \in 1..Len(ret.thm.rules) : ret.thm.rules[i] # ret.thm.rules[j]
  /\ ret.thm.result # ret.thm.axiom.list[1]

\* C3: a running call eventually ends FOUND, EXHAUSTED or DEPTH_EXCEEDED,
\* also when the rules produce new facts in every round; with axioms [0],
\* the rule increment and target -1 it ends returning None.
C3_Terminates ==
  [](state = "SEARCHING" =>
       <>(/\ state \in {"FOUND", "EXHAUSTED", "DEPTH_EXCEEDED"}
          /\ (IncrementFromZero /\ target = -1) => ret = ReturnNone))

C3_Witness ==
  /\ state = "DEPTH_EXCEEDED"
  /\ IncrementFromZero
  /\ target = -1
  /\ ret = ReturnNone
  /\ depth = max_depth + 1
  /\ depth >= 3

\* C4: when the target is the result of one of the axioms, the call ends in
\* round 0 with a theorem for the target that has no rules, and no rule
\* function has been invoked, whatever max_depth is.
C4_FoundImmediately ==
  (state \in Terminal \cup {"SEARCHING"} /\ target \in results_set(axioms)) =>
    /\ depth = 0
    /\ invoked = 0
    /\ state \in Terminal =>
         /\ state = "FOUND"
         /\ ret.kind = "Theorem"
         /\ ret.thm.result = target
         /\ ret.thm.rules = <<>>

C4_Witness ==
  /\ state = "FOUND"
  /\ max_depth < 0
  /\ rules # <<>>
  /\ target \in results_set(axioms)
  /\ ret.thm.rules = <<>>

\* C5 as stated, for max_depth >= 0: with axioms [0], the rule identity and
\* target 1 the call ends in round 1, by the fixpoint check, returning None.
C5_EndsInRoundOne ==
  (IdentityFromZero /\ target = 1 /\ max_depth >= 0 /\ state \in Terminal) =>
    /\ state = "EXHAUSTED"
    /\ ret = ReturnNone
    /\ depth = 1

\* C5 amended: with axioms [0], the rule identity and target 1 the call ends
\* in round 0 (depth counter 0) returning None: by the fixpoint check after
\* one expansion when max_depth >= 0, by the depth check when max_depth < 0.
C5_EndsInRoundZero ==
  (IdentityFromZero /\ target = 1 /\ state \in Terminal) =>
    /\ ret = ReturnNone
    /\ depth = 0
    /\ max_depth >= 0 => (state = "EXHAUSTED" /\ invoked = 1)
    /\ max_depth < 0 => (state = "DEPTH_EXCEEDED" /\ invoked = 0)

C5_Witness ==
  /\ IdentityFromZero
  /\ target = 1
  /\ max_depth >= 1
  /\ state = "EXHAUSTED"
  /\ depth = 0

\* C6: when a call ends by the fixpoint check, the target is not derivable
\* by any chain of rule applications: the set of facts derivable in at most
\* depth steps does not hold the target and is closed under every rule, so
\* that longer chains derive nothing else.
C6_ExhaustedIsUnreachable ==
  state = "EXHAUSTED" =>
    LET D == Derivable(facts, rules_arg, depth)
    IN /\ ret = ReturnNone
       /\ target \notin D
       /\ \A f \in D : \A r \in RuleSet(rules_arg) :
            ~Raises(r, f) /\ Func(r, f) \in D

C6_Witness ==
  /\ state = "EXHAUSTED"
  /\ depth >= 2
  /\ Len(found_theorems) >= 3
  /\ target > 2

\* C7 as stated, for max_depth >= 0: no expansion is made once the depth
\* counter equals max_depth, and a returned theorem has at most max_depth
\* rules.
C7_HaltsAtMaxDepth ==
  max_depth >= 0 =>
    /\ invoked > 0 => depth <= max_depth
    /\ ret.kind = "Theorem" => Len(ret.thm.rules) <= max_depth

\* C8: the prover's axioms and rules are what it was constructed with after
\* any number of calls, and a call that has ended ended as the same call ends
\* on the freshly constructed prover.
C8_ProverUnchanged ==
  /\ axioms = ConstructedAxioms
  /\ rules = rules_arg
  /\ state \in Terminal =>
       LET first == find_proof(ConstructedAxioms, rules_arg, target, max_depth)
       IN first.state = state /\ first.ret = ret

C8_Witness ==
  /\ called
  /\ state = "FOUND"
  /\ Len(ret.thm.rules) >= 2
  /\ axioms = ConstructedAxioms

\* C9 as stated: the axiom field of Axiom(f) equals its result field, both
\* are f, and its rules are empty.
C9_AxiomEqualsResult ==
  \A i \in 1..Len(axioms) :
    /\ axioms[i].axiom = PyFact(axioms[i].result)
    /\ axioms[i].result = facts[i]
    /\ axioms[i].rules = <<>>

\* C9 amended: the axiom field of Axiom(f) is the one-element list [f], its
\* result field is f and its rules are empty.
C9_AxiomIsSingletonList ==
  \A i \in 1..Len(axioms) :
    /\ axioms[i].axiom = PyList(<<facts[i]>>)
    /\ axioms[i].result = facts[i]
    /\ axioms[i].rules = <<>>

C9_Witness ==
  /\ Len(axioms) >= 2
  /\ facts[1] # facts[2]
  /\ axioms[2].result = facts[2]
  /\ axioms[2].axiom = PyList(<<facts[2]>>)

\* C10: a call ends with the error exactly when the round it is in calls a
\* rule on a frontier fact the rule raises on; it then returns nothing, the
\* frontier and depth stay as they were, and no round was completed whose
\* frontier held such a fact; a call that ends otherwise met no such fact in
\* any expansion.
C10_RaiseAborts ==
  /\ state \in Terminal \cup {"SEARCHING"} =>
       \A f \in Derivable(facts, rules_arg, depth - 1) :
         \A r \in RuleSet(rules_arg) : ~Raises(r, f)
  /\ state = "RAISED" =>
       /\ ret = Raise
       /\ ~target_found(target, found_theorems)
       /\ ~depth_exceeded(depth, max_depth)
       /\ \E i \in 1..Len(found_theorems) : \E r \in RuleSet(rules) :
            Raises(r, found_theorems[i].result)
       /\ invoked >= 1
  /\ state = "EXHAUSTED" =>
       \A i \in 1..Len(found_theorems) : \A r \in RuleSet(rules) :
         ~Raises(r, found_theorems[i].result)
  /\ state \in {"FOUND", "EXHAUSTED", "DEPTH_EXCEEDED"} =>
       ret.kind \in {"Theorem", "None"}

C10_Witness ==
  /\ state = "RAISED"
  /\ depth >= 1
  /\ invoked >= 3
  /\ ret = Raise

\* C11: two calls on the same prover whose loop iterations interleave in any
\* order each end as the same call ends when it runs alone on the freshly
\* constructed prover, and the prover's axioms and rules are never written.
C11_ConcurrentCallsIndependent ==
  /\ axioms = ConstructedAxioms
  /\ rules = rules_arg
  /\ state \in Terminal =>
       LET alone == find_proof(ConstructedAxioms, rules_arg, target, max_depth)
       IN alone.state = state /\ alone.ret = ret /\ alone.depth = depth
  /\ state2 \in Terminal =>
       LET alone == find_proof(ConstructedAxioms, rules_arg, target2, max_depth2)
       IN alone.state = state2 /\ alone.ret = ret2 /\ alone.depth = depth2

C11_Witness ==
  /\ state = "FOUND"
  /\ depth >= 1
  /\ state2 = "SEARCHING"
  /\ depth2 >= 1
  /\ target # target2
  /\ max_depth # max_depth2

\* No two theorems of the list have the same result.
DedupByResult(theorems) == Len(theorems) = Cardinality(results_set(theorems))

\* C12 as stated: in every round, round 0 included, no two theorems of the
\* frontier have the same result, whatever the axiom list is.
C12_FrontierAlwaysDeduplicated ==
  state \in Terminal \cup {"SEARCHING"} => DedupByResult(found_theorems)

\* C12 amended: from round 1 on no two theorems of the frontier have the same
\* result, so that the frontier holds as many theorems as it holds facts; in
\* round 0 the frontier is the axiom list as given, deduplicated exactly when
\* no two axioms carry the same fact.
C12_FrontierDeduplicatedAfterRoundZero ==
  state \in Terminal \cup {"SEARCHING"} =>
    /\ depth >= 1 => DedupByResult(found_theorems)
    /\ depth = 0 =>
         /\ found_theorems = axioms
         /\ DedupByResult(found_theorems) <=>
              Len(facts) = Cardinality(Items(facts))

C12_Witness ==
  /\ state = "SEARCHING"
  /\ depth >= 2
  /\ Len(facts) = 2
  /\ facts[1] = facts[2]
  /\ DedupByResult(found_theorems)
  /\ Len(rules) = 2
  /\ Len(found_theorems) >= 3

\* The frontier's derivation of a fact: the first theorem with that result.
Derivation(theorems, f) == find(is_target(f, theorems), theorems)

\* The round of the running call goes on to the merge.
RoundMerges ==
  /\ state = "SEARCHING"
  /\ ~target_found(target, found_theorems)
  /\ ~depth_exceeded(depth, max_depth)
  /\ raising_calls(found_theorems, rules) = {}
  /\ ~fixpoint(results_set(found_theorems),
               results_set(expand(found_theorems, rules)))

\* The candidates of the round that reach a fact the frontier already holds.
TiedCandidates ==
  {c \in Items(expand(found_theorems, rules)) :
     c.result \in results_set(found_theorems)}

\* C13: across every round each fact of the frontier keeps its derivation (the
\* same axiom and rules list) in the next frontier, and merging one frontier
\* theorem with one candidate of the same result returns the frontier theorem.
C13_KnownDerivationsWin ==
  [][state = "SEARCHING" /\ state' # "IDLE" =>
       /\ \A f \in results_set(found_theorems) :
            /\ f \in results_set(found_theorems')
            /\ Derivation(found_theorems', f) = Derivation(found_theorems, f)
       /\ raising_calls(found_theorems, rules) = {} =>
            \A c \in TiedCandidates :
              merge_theorem_lists(<<Derivation(found_theorems, c.result)>>, <<c>>)
                = <<Derivation(found_theorems, c.result)>>]_vars

C13_Witness ==
  /\ RoundMerges
  /\ depth >= 1
  /\ \E c \in TiedCandidates :
       /\ c # Derivation(found_theorems, c.result)
       /\ Len(c.rules) > Len(Derivation(found_theorems, c.result).rules)

\* The first theorem, in list order, whose result is the fact.
FirstMatch(theorems, f) ==
  theorems[Min({i \in 1..Len(theorems) : theorems[i].result = f})]

\* C14: a round whose frontier holds the target returns the first theorem in
\* frontier order with that result, whatever depth is; a round returns None by
\* the depth bound exactly when the target is absent and depth > max_depth, and
\* then no rule has been applied in it; only otherwise does it reach the
\* expansion and the fixpoint check.
C14_CheckOrder ==
  [][state = "SEARCHING" /\ state' # "IDLE" =>
       /\ target_found(target, found_theorems) =>
            /\ state' = "FOUND"
            /\ ret' = ReturnTheorem(FirstMatch(found_theorems, target))
            /\ invoked' = invoked
       /\ state' = "DEPTH_EXCEEDED" <=>
            ~target_found(target, found_theorems) /\ depth > max_depth
       /\ state' = "DEPTH_EXCEEDED" =>
            ret' = ReturnNone /\ invoked' = invoked
       /\ state' \in {"SEARCHING", "EXHAUSTED", "RAISED"} <=>
            ~target_found(target, found_theorems) /\ depth <= max_depth]_vars

C14_Witness ==
  /\ state = "FOUND"
  /\ max_depth >= 0
  /\ depth > max_depth
  /\ ret = ReturnTheorem(FirstMatch(found_theorems, target))
  /\ FirstMatch(found_theorems, target) # found_theorems[Len(found_theorems)]

\* C15: T.apply_rule(ctx, R) makes exactly one new theorem, with T's axiom,
\* R's function of T.result as result and T.rules followed by R as rules; every
\* theorem made before, T included, is the same object standing for the same
\* theorem afterwards, and the new theorem's rules list is an object that no
\* theorem made before refers to.
C15_ApplyRuleMakesOneNewTheorem ==
  [][heap_theorems' # heap_theorems =>
       /\ Len(heap_theorems') = Len(heap_theorems) + 1
       /\ \A j \in 1..Len(heap_theorems) :
            /\ heap_theorems'[j] = heap_theorems[j]
            /\ Value(heap_lists', heap_theorems'[j])
                 = Value(heap_lists, heap_theorems[j])
            /\ heap_theorems'[Len(heap_theorems')].rules # heap_theorems[j].rules
       /\ \E i \in 1..Len(heap_theorems), rule \in TotalRuleNames :
            /\ Value(heap_lists', heap_theorems'[Len(heap_theorems')])
                 = Theorem(PyList(heap_lists[heap_theorems[i].axiom]),
                           Append(heap_lists[heap_theorems[i].rules], rule),
                           Func(rule, heap_theorems[i].result))
            /\ <<Value(heap_lists', heap_theorems'[Len(heap_theorems')])>>
                 = apply_rule(Value(heap_lists, heap_theorems[i]), rule)]_vars

\* A theorem was extended twice (two siblings) and one of the siblings once more.
C15_Witness ==
  /\ Len(heap_theorems) = 4
  /\ \E i, j, k \in 2..4 :
       /\ i # j
       /\ Len(heap_lists[heap_theorems[i].rules]) = 1
       /\ Len(heap_lists[heap_theorems[j].rules]) = 1
       /\ heap_lists[heap_theorems[i].rules] # heap_lists[heap_theorems[j].rules]
       /\ Len(heap_lists[heap_theorems[k].rules]) = 2
       /\ heap_lists[heap_theorems[k].rules][1] = heap_lists[heap_theorems[i].rules][1]
  /\ heap_lists[heap_theorems[1].rules] = <<>>

\* One candidate per (frontier theorem, rule) pair, the rule applied to the
\* frontier theorem itself, by frontier position first and rule position second.
CandidatePerPair(theorems, rs) ==
  [k \in 1..(Len(theorems) * Len(rs)) |->
     Theorem(theorems[((k - 1) \div Len(rs)) + 1].axiom,
             Append(theorems[((k - 1) \div Len(rs)) + 1].rules,
                    rs[((k - 1) % Len(rs)) + 1]),
             Func(rs[((k - 1) % Len(rs)) + 1],
                  theorems[((k - 1) \div Len(rs)) + 1].result))]

\* C16: a round that reaches the expansion makes |F| * |rules| calls of
\* rule.func and its candidate list is the list with one candidate per
\* (frontier theorem, rule) pair in that order, duplicates included; the merge
\* works on the frontier followed by exactly that list.
C16_OneCandidatePerPair ==
  [][state = "SEARCHING" /\ state' \in {"SEARCHING", "EXHAUSTED"} =>
       /\ expand(found_theorems, rules) = CandidatePerPair(found_theorems, rules)
       /\ Len(expand(found_theorems, rules)) = Len(found_theorems) * Len(rules)
       /\ invoked' = invoked + Len(found_theorems) * Len(rules)
       /\ state' = "SEARCHING" =>
            found_theorems' =
              remove_duplicate(
                same_result(found_theorems \o CandidatePerPair(found_theorems, rules)),
                found_theorems \o CandidatePerPair(found_theorems, rules))]_vars

C16_Witness ==
  /\ RoundMerges
  /\ depth >= 1
  /\ Len(found_theorems) >= 2
  /\ Len(rules) = 2
  /\ rules[1] # rules[2]
  /\ Cardinality(results_set(expand(found_theorems, rules)))
       < Len(expand(found_theorems, rules))
  /\ invoked = Len(rules) * Len(axioms)

\* The positions of dd_seq whose item has no equivalent item before it.
FirstOccurrences ==
  {i \in 1..Len(dd_seq) :
     \A j \in 1..(i - 1) : dd_cls[dd_seq[j]] # dd_cls[dd_seq[i]]}

\* The n-th smallest position of a set of positions.
NthPosition(K, n) == CHOOSE i \in K : Cardinality({k \in K : k < i}) = n - 1

\* C17: remove_duplicate returns the items at the first occurrences of the
\* equivalence classes, in input order; [a, b, c] with a equivalent to c and b
\* to neither gives [a, b]; the call on its own output returns that output.
C17_StableDeduplication ==
  /\ Len(dd_out) >= 1 =>
       /\ Len(dd_out[1]) = Cardinality(FirstOccurrences)
       /\ \A n \in 1..Len(dd_out[1]) :
            dd_out[1][n] = dd_seq[NthPosition(FirstOccurrences, n)]
       /\ (/\ dd_seq = <<"a", "b", "c">>
           /\ dd_cls["a"] = dd_cls["c"]
           /\ dd_cls["b"] # dd_cls["a"]) => dd_out[1] = <<"a", "b">>
  /\ Len(dd_out) = 2 => dd_out[2] = dd_out[1]

C17_Witness ==
  /\ dd_seq = <<"a", "b", "c">>
  /\ dd_cls["a"] = dd_cls["c"]
  /\ dd_cls["b"] # dd_cls["a"]
  /\ dd_out = << <<"a", "b">>, <<"a", "b">> >>

\* C18: the number of rules of the theorem a call returns is the least number
\* of rule applications by which the target is derivable from the axioms: the
\* target is derivable by that many applications and not by fewer; it is also
\* the round in which the call returned.
C18_ReturnsShortestDerivation ==
  state = "FOUND" =>
    /\ target \in Derivable(facts, rules_arg, Len(ret.thm.rules))
    /\ target \notin Derivable(facts, rules_arg, Len(ret.thm.rules) - 1)
    /\ Len(ret.thm.rules) = depth

\* The target 0 is reached from 1 by predecessor, and by wrap twice.
C18_Witness ==
  /\ state = "FOUND"
  /\ facts = <<1>>
  /\ rules_arg = <<"predecessor", "wrap">>
  /\ target = 0
  /\ Replay(1, <<"wrap", "wrap">>) = target
  /\ ret.thm.rules = <<"predecessor">>

\* C19: in the round with depth counter d the results of the frontier are the
\* facts derivable from the axioms by at most d rule applications and no
\* frontier theorem has more than d rules; a round that is followed by another
\* one adds one to depth and at least one fact to the frontier's results, and
\* a round whose candidates bring no new fact ends the call with depth as it is.
C19_FrontierIsDerivableWithinDepth ==
  [][state = "SEARCHING" =>
       /\ results_set(found_theorems) = Derivable(facts, rules_arg, depth)
       /\ \A t \in Items(found_theorems) : Len(t.rules) <= depth
       /\ state' = "SEARCHING" =>
            /\ depth' = depth + 1
            /\ results_set(found_theorems) \subseteq results_set(found_theorems')
            /\ results_set(found_theorems) # results_set(found_theorems')
       /\ (/\ ~target_found(target, found_theorems)
           /\ ~depth_exceeded(depth, max_depth)
           /\ raising_calls(found_theorems, rules) = {}
           /\ results_set(expand(found_theorems, rules))
                \subseteq results_set(found_theorems)) =>
            /\ state' = "EXHAUSTED"
            /\ depth' = depth
            /\ found_theorems' = found_theorems]_vars

C19_Witness ==
  /\ state = "EXHAUSTED"
  /\ depth >= 2
  /\ Len(facts) = 2
  /\ results_set(found_theorems) = Derivable(facts, rules_arg, depth)
  /\ Derivable(facts, rules_arg, depth - 1) # Derivable(facts, rules_arg, depth)
  /\ Derivable(facts, rules_arg, depth + 1) = Derivable(facts, rules_arg, depth)
  /\ \E t \in Items(found_theorems) : Len(t.rules) = depth

====
